---- MODULE Spec2Model ----
(***************************************************************************)
(* Model of analysis/model.py: the bounds-checked Parameter and the        *)
(* attribute-dispatching Model container.                                  *)
(*                                                                         *)
(* SpecParam drives one Parameter object through construct, set,           *)
(* set_value and set_bounds.  SpecModel drives two instances of one        *)
(* concrete Model subclass: the first is built with any keywords, those    *)
(* that overwrite attributes of the class included, and written to; the    *)
(* second is built with a parameter keyword while the first is in use.     *)
(***************************************************************************)
EXTENDS Integers, Sequences, FiniteSets, TLC

VARIABLES par, plast, params, attrs, ctor, last

vars == <<par, plast, params, attrs, ctor, last>>

(***************************************************************************)
(* Bounds of the model.                                                    *)
(***************************************************************************)
\* the largest number handed to the program
MaxNum == 2
\* the most keyword arguments one constructor call is given
MaxKw == 2

Nums == 0..MaxNum

(***************************************************************************)
(* Python values handed to the program.  kind "num" is an int/long/float,  *)
(* kind "param" is another Parameter whose inner value is n, kind "other"  *)
(* is a non-numeric object, neither callable nor a container (None); any   *)
(* kind but "num" and "param" is non-numeric.                              *)
(***************************************************************************)
Num(n) == [kind |-> "num", n |-> n]
PVal(n) == [kind |-> "param", n |-> n]
Other == [kind |-> "other", n |-> 0]

NumInputs == {Num(n) : n \in Nums}
Inputs == NumInputs \cup {PVal(n) : n \in Nums} \cup {Other}

\* bounds is None (set = FALSE) or a pair (lo, hi)
NoBounds == [set |-> FALSE, lo |-> 0, hi |-> 0]
Bnd(lo, hi) == [set |-> TRUE, lo |-> lo, hi |-> hi]
BoundsInputs == {NoBounds} \cup {Bnd(lo, hi) : lo \in Nums, hi \in Nums}

(***************************************************************************)
(* class Parameter                                                         *)
(***************************************************************************)
\* class attributes __value__ = None, __bounds__ = None
Fresh == [hasValue |-> FALSE, value |-> 0, bounds |-> NoBounds]

Result(obj, err) == [obj |-> obj, err |-> err]

\* Parameter.set_bounds: None is a no-op, anything else replaces the bounds
set_bounds(self, bounds) ==
    IF ~bounds.set THEN self
    ELSE [self EXCEPT !.bounds = bounds]

\* Parameter.check_bounds: the exception it raises, or "ok".
\* A Parameter operand compares by its inner value (__ge__/__le__); a
\* non-numeric operand never gets as far as the ValueError: building the
\* message with %.2g raises TypeError.
check_bounds_strict(self, value) ==
    IF ~self.bounds.set THEN "ok"
    ELSE IF value.kind \notin {"num", "param"} THEN "TypeError"
    ELSE IF self.bounds.lo < value.n /\ value.n < self.bounds.hi THEN "ok"
    ELSE "ValueError"

check_bounds_none(self, value) ==
    IF value.kind \notin {"num", "param"} /\ self.bounds.set THEN "TypeError" ELSE "ok"

check_bounds(self, value) ==
    IF ~self.bounds.set THEN "ok"
    ELSE IF value.kind \notin {"num", "param"} THEN "TypeError"
    ELSE IF self.bounds.lo <= value.n /\ value.n <= self.bounds.hi THEN "ok"
    ELSE "ValueError"

\* Parameter.set_value
set_value(self, value) ==
    LET chk == check_bounds(self, value) IN
    IF chk # "ok" THEN Result(self, chk)
    ELSE IF value.kind \in {"num", "param"}
         THEN Result([self EXCEPT !.hasValue = TRUE, !.value = value.n], "ok")
         ELSE Result(self, "TypeError")

\* Parameter.set: bounds first, then the value
set_value_first(self, value, bounds) ==
    LET r == set_value(self, value) IN
    IF r.err # "ok" THEN r ELSE Result(set_bounds(r.obj, bounds), "ok")

set_atomic(self, value, bounds) ==
    LET r == set_value(set_bounds(self, bounds), value) IN
    IF r.err # "ok" THEN Result(self, r.err) ELSE r

set(self, value, bounds) ==
    set_value(set_bounds(self, bounds), value)

\* Parameter.__init__
construct(value, bounds) == set(Fresh, value, bounds)

\* the last call on the Parameter: its arguments, the exception it raised,
\* the object before the call, and whether every call so far succeeded
PNone == [op |-> "init", value |-> Other, bounds |-> NoBounds, err |-> "ok",
          pre |-> Fresh, allok |-> TRUE]
PRec(op, value, bounds, err, pre) ==
    [op |-> op, value |-> value, bounds |-> bounds, err |-> err, pre |-> pre,
     allok |-> plast.allok /\ err = "ok"]

\* p = Parameter(value, bounds); a raising constructor binds nothing
PConstruct(value, bounds) ==
    LET r == construct(value, bounds) IN
    /\ par' = IF r.err = "ok" THEN r.obj ELSE par
    /\ plast' = PRec("construct", value, bounds, r.err, par)
    /\ UNCHANGED <<params, attrs, ctor, last>>

PSetValue(value) ==
    LET r == set_value(par, value) IN
    /\ par' = r.obj
    /\ plast' = PRec("set_value", value, NoBounds, r.err, par)
    /\ UNCHANGED <<params, attrs, ctor, last>>

PSetBounds(bounds) ==
    /\ par' = set_bounds(par, bounds)
    /\ plast' = PRec("set_bounds", Other, bounds, "ok", par)
    /\ UNCHANGED <<params, attrs, ctor, last>>

PSet(value, bounds) ==
    LET r == set(par, value, bounds) IN
    /\ par' = r.obj
    /\ plast' = PRec("set", value, bounds, r.err, par)
    /\ UNCHANGED <<params, attrs, ctor, last>>

(***************************************************************************)
(* class Model, as declared by one concrete subclass M:                    *)
(*   _params  = odict([('x', Parameter(0, (0, 1))), ('y', Parameter(0))])  *)
(*   _mapping = odict([('a', 'x'), ('aa', 'a')])                           *)
(* and whose _cache override records each call and the value it sees.      *)
(***************************************************************************)
Instances == {"m1", "m2"}
ParamNames == {"x", "y"}
mapping == [a |-> "x", aa |-> "a"]
\* what ordinary lookup finds on every instance without the instance
\* holding it: the names bound in the body of class Model, and what object
\* and the instance layout supply (Python 2.7)
ClassAttrs == {"__init__", "__getattr__", "__setattr__", "__str__", "_getp",
               "_setp", "_cache", "params", "_params", "_mapping"}
ObjectAttrs == {"__class__", "__delattr__", "__dict__", "__doc__", "__format__",
                "__getattribute__", "__hash__", "__module__", "__new__",
                "__reduce__", "__reduce_ex__", "__repr__", "__sizeof__",
                "__subclasshook__", "__weakref__"}
\* data descriptors of the type: they win over the instance __dict__
DataDescriptors == {"params", "__class__", "__dict__", "__weakref__"}

\* further Python values an attribute can be given: the string 'M', a new
\* empty dict, and a function that takes any arguments, does nothing and
\* returns None
Str == [kind |-> "str", n |-> 0]
Dict == [kind |-> "dict", n |-> 0]
Fn == [kind |-> "callable", n |-> 0]

\* the keywords the first object is built with, the keywords the second
\* object is built with, the instances written to after construction and
\* the names written
KwNames == {"x", "a", "name", "foo", "params", "_cache", "_params", "_mapping",
            "__getattr__", "__setattr__"}
PlainKwNames == {"x"}
KwNamesOf(inst) == IF inst = "m1" THEN KwNames ELSE PlainKwNames
Writers == {"m1"}
AttrNames == {"x", "a", "aa"}
ModelInputs == NumInputs \cup {Other}
\* values written to names that are no parameters: an ordinary name is
\* stored without a look at the value, so one value stands for all.  A value
\* that takes the place of _params or _mapping is used with `in`, .keys()
\* and a subscript, where a string, a dict and a number each behave
\* differently and a function behaves as the number does; a value that
\* takes the place of a method is called, where a function is and a
\* number, like a string or a dict, cannot be
OrdInputs == {Other}
TableInputs == {Num(0), Str, Dict}
MethodInputs == {Num(0), Fn}
ValuesFor(name) ==
    IF name \in ParamNames \cup DOMAIN mapping THEN ModelInputs
    ELSE IF name \in {"_params", "_mapping"} THEN TableInputs
    ELSE IF name \in ClassAttrs \cup ObjectAttrs THEN MethodInputs
    ELSE OrdInputs

Declared == [x |-> construct(Num(0), Bnd(0, 1)).obj,
             y |-> construct(Num(0), NoBounds).obj]

\* self.__class__.__name__ is the string 'M'
ClassName == Str
\* what lookup returns for an attribute of the class (a bound method, the
\* odict of parameters or of aliases)
ClassAttr == [kind |-> "classattr", n |-> 0]
\* no value: what a failed lookup carries
Absent == [kind |-> "absent", n |-> 0]
\* the instance __dict__ maps the names stored so far to their values
EmptyDict == [n \in {} |-> Absent]

\* the object an operation runs on: the class-level _params, the instance
\* __dict__, the calls made to the cache hook, and the exception raised
World(ps, dict) == [params |-> ps, dict |-> dict, cache |-> <<>>, err |-> "ok"]

Got(err, val) == [err |-> err, val |-> val]
Raise(w, err) == [w EXCEPT !.err = err]

\* self.<name> inside a method finds an instance attribute before the class
\* attribute of that name
Shadowed(w, name) == name \in DOMAIN w.dict

\* `name in v` for a stored value v: a substring test on the string 'M',
\* False on the empty dict, a TypeError on anything else
Has(yes) == [err |-> "ok", yes |-> yes]
Contains(v, name) ==
    IF v.kind = "str" THEN Has(name \in {"", "M"})
    ELSE IF v.kind = "dict" THEN Has(FALSE)
    ELSE [err |-> "TypeError", yes |-> FALSE]

\* the exception of v[name] for a stored value v: the empty dict has no
\* key, nothing else takes a name as subscript
Subscript(v) == IF v.kind = "dict" THEN "KeyError" ELSE "TypeError"

\* v(...) for a stored value v: the function returns None, anything else
\* cannot be called
Call(v) ==
    IF v.kind = "callable" THEN Got("ok", Other) ELSE Got("TypeError", Absent)

\* `name in self._mapping` (line 31), `name in self._mapping.keys()`
\* (line 42: only a dict has keys) and `name in self._params` (lines 33, 44)
InMapping(w, name) ==
    IF Shadowed(w, "_mapping") THEN Contains(w.dict["_mapping"], name)
    ELSE Has(name \in DOMAIN mapping)

InMappingKeys(w, name) ==
    IF ~Shadowed(w, "_mapping") THEN Has(name \in DOMAIN mapping)
    ELSE IF w.dict["_mapping"].kind = "dict" THEN Has(FALSE)
    ELSE [err |-> "AttributeError", yes |-> FALSE]

InParams(w, name) ==
    IF Shadowed(w, "_params") THEN Contains(w.dict["_params"], name)
    ELSE Has(name \in DOMAIN w.params)

\* object.__getattribute__: the data descriptors of the type first (the
\* property params returns self._params), then the instance __dict__, then
\* the other attributes of the class and of object; AttributeError when none
\* has the name
ObjectGetattribute_dict_only(w, name) ==
    IF name \in DOMAIN w.dict
    THEN Got("ok", w.dict[name])
    ELSE Got("AttributeError", Absent)

ObjectGetattribute(w, name) ==
    IF name = "params"
    THEN Got("ok", IF Shadowed(w, "_params") THEN w.dict["_params"] ELSE ClassAttr)
    ELSE IF name \in DataDescriptors THEN Got("ok", ClassAttr)
    ELSE IF name \in DOMAIN w.dict THEN Got("ok", w.dict[name])
    ELSE IF name \in ClassAttrs \cup ObjectAttrs THEN Got("ok", ClassAttr)
    ELSE Got("AttributeError", Absent)

\* object.__setattr__: the property params has no setter and __weakref__ is
\* not writable (AttributeError); __class__ takes only a class (TypeError);
\* __dict__ takes only a dict, which then is the instance __dict__; any
\* other name is stored in the instance __dict__
ObjectSetattr(w, name, value) ==
    IF name \in {"params", "__weakref__"} THEN Raise(w, "AttributeError")
    ELSE IF name = "__class__" THEN Raise(w, "TypeError")
    ELSE IF name = "__dict__"
         THEN IF value.kind = "dict" THEN [w EXCEPT !.dict = EmptyDict]
              ELSE Raise(w, "TypeError")
    ELSE [w EXCEPT !.dict = (name :> value) @@ @]

\* Model._getp: self._params[name].value
getp(w, name) ==
    IF Shadowed(w, "_params") THEN Got(Subscript(w.dict["_params"]), Absent)
    ELSE IF name \notin DOMAIN w.params THEN Got("KeyError", Absent)
    ELSE Got("ok", Num(w.params[name].value))

\* Model.__getattr__: self._mapping, self.__getattr__, self._params and
\* self._getp are whatever lookup through the instance finds
RECURSIVE getattr(_, _)
getattr(w, name) ==
    LET m == InMapping(w, name)
        p == InParams(w, name) IN
    IF m.err # "ok" THEN Got(m.err, Absent)
    ELSE IF m.yes
         THEN IF Shadowed(w, "_mapping")
              THEN Got(Subscript(w.dict["_mapping"]), Absent)
              ELSE IF Shadowed(w, "__getattr__") THEN Call(w.dict["__getattr__"])
              ELSE getattr(w, mapping[name])
    ELSE IF p.err # "ok" THEN Got(p.err, Absent)
    ELSE IF p.yes
         THEN IF Shadowed(w, "_getp") THEN Call(w.dict["_getp"])
              ELSE getp(w, name)
    ELSE ObjectGetattribute(w, name)

\* one call of the cache hook, by the method of the class or by a function
\* stored in the instance: the name it is given and the stored value it sees
Called(w, name, by) ==
    [w EXCEPT !.cache = Append(@, [name |-> name, seen |-> w.params[name].value,
                                   by |-> by])]

\* Model._cache, as overridden in M
cache(w, name) == Called(w, name, "class")

\* self._cache(name), line 90: an instance attribute of that name is called
\* in place of the method
self_cache(w, name) ==
    IF ~Shadowed(w, "_cache") THEN cache(w, name)
    ELSE IF w.dict["_cache"].kind = "callable" THEN Called(w, name, "instance")
    ELSE Raise(w, "TypeError")

\* Model._setp: self._params[name].set_value(value), then self._cache(name)
setp_cache_always(w, name, value) ==
    LET r == set_value(w.params[name], value) IN
    IF Shadowed(w, "_params") THEN Raise(w, Subscript(w.dict["_params"]))
    ELSE IF name \notin DOMAIN w.params THEN Raise(w, "KeyError")
    ELSE IF r.err # "ok" THEN cache(Raise(w, r.err), name)
    ELSE self_cache([w EXCEPT !.params[name] = r.obj], name)

setp_hook_before_store(w, name, value) ==
    LET r == set_value(w.params[name], value)
        h == self_cache(w, name) IN
    IF Shadowed(w, "_params") THEN Raise(w, Subscript(w.dict["_params"]))
    ELSE IF name \notin DOMAIN w.params THEN Raise(w, "KeyError")
    ELSE IF r.err # "ok" THEN Raise(w, r.err)
    ELSE IF h.err # "ok" THEN h
    ELSE [h EXCEPT !.params[name] = r.obj]

setp(w, name, value) ==
    LET r == set_value(w.params[name], value) IN
    IF Shadowed(w, "_params") THEN Raise(w, Subscript(w.dict["_params"]))
    ELSE IF name \notin DOMAIN w.params THEN Raise(w, "KeyError")
    ELSE IF r.err # "ok" THEN Raise(w, r.err)
    ELSE self_cache([w EXCEPT !.params[name] = r.obj], name)

\* self._setp(name, value), line 45, and self.__setattr__(target, value),
\* line 43, when the instance holds an attribute of that name: the function
\* is called and does nothing, anything else cannot be called
CallStored(w, name) ==
    IF w.dict[name].kind = "callable" THEN w ELSE Raise(w, "TypeError")

\* Model.__setattr__
setattr_onehop(w, name, value) ==
    LET m == InMappingKeys(w, name)
        target == IF m.yes THEN mapping[name] ELSE name
        p == InParams(w, target) IN
    IF m.err # "ok" THEN Raise(w, m.err)
    ELSE IF p.err # "ok" THEN Raise(w, p.err)
    ELSE IF p.yes
         THEN IF Shadowed(w, "_setp") THEN CallStored(w, "_setp")
              ELSE setp(w, target, value)
    ELSE ObjectSetattr(w, target, value)

RECURSIVE setattr(_, _, _)
setattr(w, name, value) ==
    LET m == InMappingKeys(w, name)
        p == InParams(w, name) IN
    IF m.err # "ok" THEN Raise(w, m.err)
    ELSE IF m.yes
         THEN IF Shadowed(w, "__setattr__") THEN CallStored(w, "__setattr__")
              ELSE setattr(w, mapping[name], value)
    ELSE IF p.err # "ok" THEN Raise(w, p.err)
    ELSE IF p.yes
         THEN IF Shadowed(w, "_setp") THEN CallStored(w, "_setp")
              ELSE setp(w, name, value)
    ELSE ObjectSetattr(w, name, value)

\* Model.__init__, line 19: self.name = self.__class__.__name__
init_name(w) == setattr(w, "name", ClassName)

\* Model.__init__, one iteration of the loop over the keyword arguments:
\* self.__getattr__ raises for a name that is not found, then
\* self.__setattr__; both are looked up through self, where an instance
\* attribute of that name is found first and called
init_item_nocheck(w, key, value) ==
    IF Shadowed(w, "__setattr__") THEN CallStored(w, "__setattr__")
    ELSE setattr(w, key, value)

init_item(w, key, value) ==
    LET g == IF Shadowed(w, "__getattr__") THEN Call(w.dict["__getattr__"])
             ELSE getattr(w, key) IN
    IF g.err # "ok" THEN Raise(w, g.err)
    ELSE IF Shadowed(w, "__setattr__") THEN CallStored(w, "__setattr__")
    ELSE setattr(w, key, value)

LNone == [op |-> "init", inst |-> "m1", name |-> "name", value |-> Other,
          err |-> "ok", cache |-> <<>>]
LRec(op, inst, name, value, w) ==
    [op |-> op, inst |-> inst, name |-> name, value |-> value,
     err |-> w.err, cache |-> w.cache]

\* no constructor is running
CtorIdle == [active |-> FALSE, inst |-> "m1", dict |-> EmptyDict, used |-> {},
             ncache |-> 0, changed |-> {}, err |-> "ok"]

Changed(old, new) == {p \in ParamNames : old[p] # new[p]}

\* m = M(**kwargs) is entered: the object is created and named
CtorBegin(inst) ==
    /\ ~ctor.active
    /\ ~attrs[inst].alive
    /\ LET w == init_name(World(params, EmptyDict)) IN
       /\ params' = w.params
       /\ ctor' = [active |-> w.err = "ok", inst |-> inst, dict |-> w.dict,
                   used |-> {}, ncache |-> Len(w.cache),
                   changed |-> Changed(params, w.params), err |-> w.err]
       /\ last' = LRec("ctor_begin", inst, "name", ClassName, w)
    /\ UNCHANGED <<par, plast, attrs>>

\* the loop takes the next keyword argument of the dict, in any order; an
\* exception leaves the constructor and the object is never bound
CtorItem(key, value) ==
    /\ ctor.active
    /\ key \notin ctor.used
    /\ key \in KwNamesOf(ctor.inst)
    /\ Cardinality(ctor.used) < MaxKw
    /\ LET w == init_item(World(params, ctor.dict), key, value) IN
       /\ params' = w.params
       /\ ctor' = [ctor EXCEPT !.active = (w.err = "ok"),
                               !.dict = w.dict,
                               !.used = @ \cup {key},
                               !.ncache = @ + Len(w.cache),
                               !.changed = @ \cup Changed(params, w.params),
                               !.err = w.err]
       /\ last' = LRec("ctor_item", ctor.inst, key, value, w)
    /\ UNCHANGED <<par, plast, attrs>>

\* the loop is exhausted: the constructor returns and the instance is bound
CtorEnd ==
    /\ ctor.active
    /\ attrs' = [attrs EXCEPT ![ctor.inst] = [alive |-> TRUE, dict |-> ctor.dict]]
    /\ ctor' = CtorIdle
    /\ last' = [LNone EXCEPT !.op = "ctor_end", !.inst = ctor.inst]
    /\ UNCHANGED <<par, plast, params>>

\* m.name = value
SetAttr(inst, name, value) ==
    /\ ~ctor.active
    /\ attrs[inst].alive
    /\ LET w == setattr(World(params, attrs[inst].dict), name, value) IN
       /\ params' = w.params
       /\ attrs' = [attrs EXCEPT ![inst].dict = w.dict]
       /\ last' = LRec("setattr", inst, name, value, w)
    /\ ctor' = CtorIdle
    /\ UNCHANGED <<par, plast>>

\* the expression m.name, evaluated in the current state: ordinary lookup,
\* and __getattr__ when that finds nothing
Read(inst, name) ==
    LET w == World(params, attrs[inst].dict)
        g == ObjectGetattribute(w, name) IN
    IF g.err = "ok" THEN g ELSE getattr(w, name)

(***************************************************************************)
(* Specifications                                                          *)
(***************************************************************************)
ModelIdle ==
    /\ params = Declared
    /\ attrs = [i \in Instances |-> [alive |-> FALSE, dict |-> EmptyDict]]
    /\ ctor = CtorIdle
    /\ last = LNone

InitParam ==
    /\ \E v \in Inputs, b \in BoundsInputs :
          /\ construct(v, b).err = "ok"
          /\ par = construct(v, b).obj
    /\ plast = PNone
    /\ ModelIdle

NextParam ==
    \/ \E v \in Inputs, b \in BoundsInputs : PConstruct(v, b)
    \/ \E v \in Inputs : PSetValue(v)
    \/ \E b \in BoundsInputs : PSetBounds(b)
    \/ \E v \in Inputs, b \in BoundsInputs : PSet(v, b)

SpecParam == InitParam /\ [][NextParam]_vars

InitModel ==
    /\ par = Declared.x
    /\ plast = PNone
    /\ ModelIdle

NextModel ==
    \/ \E i \in Instances : CtorBegin(i)
    \/ \E k \in KwNames : \E v \in ValuesFor(k) : CtorItem(k, v)
    \/ CtorEnd
    \/ \E i \in Writers, n \in AttrNames : \E v \in ValuesFor(n) : SetAttr(i, n, v)

SpecModel == InitModel /\ [][NextModel]_vars

(***************************************************************************)
(* Properties of Parameter (SpecParam)                                     *)
(***************************************************************************)
\* the value v lies within the bounds b, inclusive
Within(b, v) == v.kind \in {"num", "param"} /\ b.lo <= v.n /\ v.n <= b.hi
BoundsHold(p) == p.bounds.set => p.bounds.lo <= p.value /\ p.value <= p.bounds.hi

\* C1 as stated: after any sequence of successful construct, set, set_value
\* and set_bounds calls, non-None bounds enclose the value.
C1_InvariantAfterAnySuccessfulCalls == plast.allok => BoundsHold(par)

\* C1 amended: right after every successful construct, set or set_value
\* call, non-None bounds enclose the value (set_bounds does not re-validate).
C1_InvariantAfterValueMutation ==
    (plast.op \in {"construct", "set", "set_value"} /\ plast.err = "ok")
        => BoundsHold(par)

\* a successful set_value that re-established bounds the object had broken
C1_Witness ==
    /\ plast.op = "set_value" /\ plast.err = "ok"
    /\ par.bounds.set /\ ~BoundsHold(plast.pre) /\ BoundsHold(par)

\* C2: with bounds (lo, hi), set_value(v) for numeric v inside the bounds
\* succeeds and stores v; for v < lo or v > hi it raises the bounds error and
\* leaves value and bounds as they were.
C2_SetValueChecksBounds ==
    (plast.op = "set_value" /\ plast.pre.bounds.set /\ plast.value.kind = "num")
        => LET lo == plast.pre.bounds.lo
               hi == plast.pre.bounds.hi
               v == plast.value.n IN
           /\ (lo <= v /\ v <= hi) =>
                 /\ plast.err = "ok"
                 /\ par.value = v
                 /\ par.bounds = plast.pre.bounds
           /\ (v < lo \/ v > hi) =>
                 /\ plast.err = "ValueError"
                 /\ par = plast.pre

\* set_value rejected a value above the upper bound of a satisfiable range
C2_Witness ==
    /\ plast.op = "set_value" /\ plast.value.kind = "num"
    /\ plast.pre.bounds.set /\ plast.pre.bounds.lo <= plast.pre.bounds.hi
    /\ plast.value.n > plast.pre.bounds.hi
    /\ plast.err = "ValueError" /\ par = plast.pre

\* C9: set(value, bounds) with non-None bounds succeeds exactly when value
\* lies within the bounds passed in the call, whatever the old bounds were,
\* and then holds the new value and the new bounds.
C9_SetUsesNewBounds ==
    (plast.op = "set" /\ plast.bounds.set)
        => /\ (plast.err = "ok") <=> Within(plast.bounds, plast.value)
           /\ plast.err = "ok" =>
                 /\ par.value = plast.value.n
                 /\ par.bounds = plast.bounds

\* set succeeded with a value the old bounds would have rejected
C9_Witness ==
    /\ plast.op = "set" /\ plast.bounds.set /\ plast.err = "ok"
    /\ plast.pre.bounds.set /\ ~Within(plast.pre.bounds, plast.value)
    /\ par.value = plast.value.n /\ par.bounds = plast.bounds

\* C10: when set(value, bounds) with non-None bounds raises, the stored value
\* is unchanged and the bounds have been replaced by the new bounds.
C10_FailedSetKeepsNewBounds ==
    (plast.op = "set" /\ plast.bounds.set /\ plast.err # "ok")
        => /\ ~Within(plast.bounds, plast.value)
           /\ par.value = plast.pre.value
           /\ par.bounds = plast.bounds

\* a rejected set that nevertheless changed the bounds
C10_Witness ==
    /\ plast.op = "set" /\ plast.bounds.set /\ plast.err = "ValueError"
    /\ par.bounds = plast.bounds /\ par.bounds # plast.pre.bounds
    /\ par.value = plast.pre.value

(***************************************************************************)
(* Properties of Model (SpecModel)                                         *)
(***************************************************************************)
\* what the class declares: parameter names, alias names, and the parameter
\* each of them stands for
DeclaredNames == {"x", "y", "a", "aa"}
CanonOf == [x |-> "x", a |-> "x", aa |-> "x", y |-> "y"]
\* attributes every object has once __init__ has named it: its name and
\* what its class and object define; two of them cannot be assigned at all,
\* two take only a class or a dictionary, the others can be overwritten
ExistingAttrs == {"name"} \cup ClassAttrs \cup ObjectAttrs
ReadOnlyAttrs == {"params", "__weakref__"}
TypedAttrs == {"__class__", "__dict__"}
WritableAttrs == ExistingAttrs \ (ReadOnlyAttrs \cup TypedAttrs)
\* the instance __dict__ d hides none of the class attributes that the
\* check of a keyword in __init__ goes through, that the check and the
\* assignment of a keyword go through, that a write goes through, that
\* reads and writes go through
CheckIntact(d) == DOMAIN d \cap {"__getattr__", "_params", "_mapping"} = {}
LookupIntact(d) == DOMAIN d \cap {"__getattr__", "__setattr__", "_params", "_mapping"} = {}
WriteIntact(d) == DOMAIN d \cap {"__setattr__", "_setp", "_params", "_mapping"} = {}
AccessIntact(d) == LookupIntact(d) /\ DOMAIN d \cap {"_getp", "_setp"} = {}
\* self._cache of an instance with __dict__ d can be called: it is the
\* method of the class or a function stored in the instance
HookCallable(d) == "_cache" \in DOMAIN d => d["_cache"].kind = "callable"
\* the value the instance __dict__ d holds for a name, if any
Held(d, name) == IF name \in DOMAIN d THEN d[name] ELSE Absent
Alive(i) == attrs[i].alive
\* the operation of the last step is a write, by attribute or by keyword
IsWrite(l) == l.op \in {"setattr", "ctor_item"}

\* C3 as stated: when a constructor keyword resolves to no parameter, alias
\* or attribute, the attribute-not-found error is raised with no parameter
\* mutated and the cache hook not invoked since construction began.
C3_NothingMutatedBeforeError ==
    (last.op = "ctor_item" /\ last.name \notin DeclaredNames \cup ExistingAttrs)
        => /\ last.err = "AttributeError"
           /\ ctor.changed = {}
           /\ ctor.ncache = 0

\* C3 amended: the undeclared keyword itself mutates no parameter and does
\* not invoke the hook; keywords iterated before it stay assigned, so
\* nothing at all has been mutated only when it is iterated first.  When no
\* earlier keyword has overwritten __getattr__, _params or _mapping, which
\* the check goes through, the keyword raises the attribute-not-found error
\* when the loop reaches it, assigns nothing, and no instance is bound.
C3_UndeclaredKeywordStep ==
    [][(last'.op = "ctor_item" /\ last'.name \notin DeclaredNames \cup ExistingAttrs)
        => /\ params' = params
           /\ attrs' = attrs
           /\ last'.cache = <<>>
           /\ ctor'.ncache = ctor.ncache
           /\ ctor'.changed = ctor.changed
           /\ ctor.used = {} => (ctor'.changed = {} /\ ctor'.ncache = 0)
           /\ CheckIntact(ctor.dict) =>
                 /\ last'.err = "AttributeError"
                 /\ ctor'.dict = ctor.dict
                 /\ ~ctor'.active]_vars

\* the error was raised after an earlier keyword had changed a parameter and
\* invoked the hook
C3_Witness ==
    /\ last.op = "ctor_item" /\ last.name = "foo"
    /\ last.err = "AttributeError"
    /\ CheckIntact(ctor.dict)
    /\ ctor.changed # {} /\ ctor.ncache > 0

\* C4 as stated: the cache hook is invoked exactly once per successful
\* assignment to a parameter name (attribute write or constructor keyword,
\* direct or aliased), after the value is stored, with the canonical
\* parameter name; it is not invoked on a failed assignment or on an
\* ordinary attribute write.
C4_HookOnEverySuccessfulWrite ==
    /\ IsWrite(last) =>
          /\ (last.cache # <<>>) <=> (last.err = "ok" /\ last.name \in DeclaredNames)
          /\ last.cache # <<>> =>
                /\ Len(last.cache) = 1
                /\ last.cache[1].name = CanonOf[last.name]
                /\ last.cache[1].seen = last.value.n
    /\ ~IsWrite(last) => last.cache = <<>>

\* C4 amended: a write invokes self._cache (the method of the class, or a
\* function stored in the instance under that name) at most once, only after
\* the value is stored in the parameter, with the canonical parameter name;
\* on an object that has not overwritten __setattr__, _setp, _params or
\* _mapping, which a write goes through, it is invoked exactly when the
\* write is to a parameter name (direct or aliased) and succeeds.
C4_CacheOncePerAssignment ==
    [][/\ IsWrite(last') =>
             /\ last'.cache # <<>> =>
                   /\ Len(last'.cache) = 1
                   /\ last'.err = "ok"
                   /\ last'.name \in DeclaredNames
                   /\ last'.cache[1].name = CanonOf[last'.name]
                   /\ last'.cache[1].seen = last'.value.n
                   /\ params'[CanonOf[last'.name]].value = last'.value.n
             /\ WriteIntact(IF last'.op = "ctor_item" THEN ctor.dict
                            ELSE attrs[last'.inst].dict) =>
                   ((last'.cache # <<>>)
                       <=> (last'.err = "ok" /\ last'.name \in DeclaredNames))
       /\ ~IsWrite(last') => last'.cache = <<>>]_vars

\* a constructor keyword given through an alias changed the parameter and the
\* hook saw the new value under the canonical name
C4_Witness ==
    /\ last.op = "ctor_item" /\ last.name = "a" /\ last.err = "ok"
    /\ WriteIntact(ctor.dict)
    /\ "x" \in ctor.changed
    /\ last.cache = <<[name |-> "x", seen |-> last.value.n, by |-> "class"]>>

\* C5 as stated: alias a stands for parameter x: reading a and reading x
\* always agree; a write to either name succeeds exactly when the value is
\* within the bounds of x, a successful write is what both reads then return,
\* and a write that raises changes neither.
C5_LastSuccessfulWrite ==
    [][/\ \A i \in Instances : Alive(i)' => Read(i, "a")' = Read(i, "x")'
       /\ \A i \in Instances, v \in ModelInputs :
             (/\ last'.op = "setattr" /\ last'.name \in {"a", "x"}
              /\ last'.inst = i /\ last'.value = v) =>
                /\ (last'.err = "ok") <=> Within(params["x"].bounds, v)
                /\ last'.err = "ok" =>
                      /\ Read(i, "a")' = Got("ok", Num(v.n))
                      /\ Read(i, "x")' = Got("ok", Num(v.n))
                /\ last'.err # "ok" =>
                      /\ Read(i, "a")' = Read(i, "a")
                      /\ Read(i, "x")' = Read(i, "x")]_vars

\* C5 amended: on an instance that has not overwritten __getattr__,
\* __setattr__, _params, _mapping, _getp or _setp, reading a and reading x
\* always agree and return the current value of the parameter x of the
\* class; a write to either name is validated against the bounds of x; a
\* write that passes the validation is what both reads then return, also
\* when the call goes on to raise because the instance's _cache cannot be
\* called; a write that fails the validation changes nothing.  The parameter
\* changes by nothing but a validated write, by attribute or by constructor
\* keyword, to a name that resolves to x, on any instance of the class.
C5_AliasSameParameter ==
    [][/\ \A i \in Instances :
             (Alive(i) /\ AccessIntact(attrs[i].dict))' =>
                 /\ Read(i, "a")' = Read(i, "x")'
                 /\ Read(i, "x")' = Got("ok", Num(params'["x"].value))
       /\ \A i \in Instances, v \in ModelInputs :
             (/\ last'.op = "setattr" /\ last'.name \in {"a", "x"}
              /\ last'.inst = i /\ last'.value = v
              /\ AccessIntact(attrs[i].dict)) =>
                /\ (last'.err = "ok")
                      <=> (Within(params["x"].bounds, v) /\ HookCallable(attrs[i].dict))
                /\ Within(params["x"].bounds, v) =>
                      /\ Read(i, "a")' = Got("ok", Num(v.n))
                      /\ Read(i, "x")' = Got("ok", Num(v.n))
                /\ ~Within(params["x"].bounds, v) =>
                      /\ last'.err \in {"ValueError", "TypeError"}
                      /\ params' = params
       /\ params'["x"] # params["x"] =>
             /\ IsWrite(last')
             /\ last'.name \in {"x", "a", "aa"}
             /\ Within(params["x"].bounds, last'.value)
             /\ params'["x"].value = last'.value.n]_vars

\* a write through the alias raised at the overwritten hook, and is read
\* back under both names all the same
C5_Witness ==
    /\ last.op = "setattr" /\ last.name = "a" /\ last.err = "TypeError"
    /\ last.value = Num(1) /\ ~HookCallable(attrs[last.inst].dict)
    /\ AccessIntact(attrs[last.inst].dict)
    /\ Read(last.inst, "x") = Got("ok", Num(1))
    /\ Read(last.inst, "a") = Got("ok", Num(1))

\* C6: assigning a parameter on one instance (by constructor keyword or by
\* attribute write) never changes what another instance reads.
C6_InstancesShareNothing ==
    [][\A j \in Instances :
         (/\ last'.op \in {"setattr", "ctor_item"}
          /\ last'.inst # j
          /\ Alive(j) /\ Alive(j)')
            => \A p \in DeclaredNames : Read(j, p)' = Read(j, p)]_vars

C8_OneHopOnly ==
    /\ \A i \in Instances :
          Alive(i) => Read(i, "aa") # Got("ok", Num(params["x"].value))
    /\ (last.op = "setattr" /\ last.name = "aa") => last.cache = <<>>

\* C8 amended: alias resolution is transitive: with aa -> a and a -> x, on
\* an instance that has not overwritten __getattr__, __setattr__, _params,
\* _mapping, _getp or _setp, reading aa returns the value of x, and writing
\* aa is a bounds-checked write to x followed by one call of self._cache
\* with the name x, which succeeds unless the instance holds a _cache that
\* cannot be called.
C8_AliasChainResolved ==
    /\ \A i \in Instances :
          (Alive(i) /\ AccessIntact(attrs[i].dict)) =>
             Read(i, "aa") = Got("ok", Num(params["x"].value))
    /\ (/\ last.op = "setattr" /\ last.name = "aa"
        /\ AccessIntact(attrs[last.inst].dict)) =>
          /\ (last.err = "ok")
                <=> /\ Within(params["x"].bounds, last.value)
                    /\ HookCallable(attrs[last.inst].dict)
          /\ Within(params["x"].bounds, last.value) =>
                params["x"].value = last.value.n
          /\ last.err = "ok" =>
                last.cache = <<[name |-> "x", seen |-> last.value.n,
                                by |-> IF "_cache" \in DOMAIN attrs[last.inst].dict
                                       THEN "instance" ELSE "class"]>>

\* a write to aa stored a new value in x
C8_Witness ==
    /\ last.op = "setattr" /\ last.name = "aa" /\ last.err = "ok"
    /\ AccessIntact(attrs[last.inst].dict)
    /\ last.value = Num(1) /\ params["x"].value = 1
    /\ Read(last.inst, "aa") = Got("ok", Num(1))

====
